---- MODULE Spec2Model ----
(***************************************************************************)
(* State-machine model of the widget SDK client (src/src/widget-client.ts):*)
(* BaseWidgetClient with its two variants WidgetClient (live) and          *)
(* PreviewWidgetClient (preview).  One action per public method, timer     *)
(* callback, DOM event and inbound window message.                         *)
(***************************************************************************)
EXTENDS Integers, Sequences, FiniteSets, TLC

\* ------------------------------------------------------------------ bounds
\* number of mount() calls explored (each successful one creates one frame)
MaxMounts == 2
\* number of waitFor() registrations explored; each live refresh() command
\* uses one, so this also bounds the refresh commands
MaxWaits == 2

\* ------------------------------------------------------------- data values
\* null in the fields iframe / readyTimeoutId / contentWindow
NoFrame == 0
NoTimer == 0
NoWindow == 0
\* a window that is not a frame of this instance (another tab, another widget)
ForeignWindow == 99

\* config.ts: the fixed base address of the remote widget
WIDGET_URL == [scheme |-> "http", host |-> "localhost:5173", path |-> "", query |-> <<>>]

\* new URL(u).origin: scheme and authority only, path and query dropped
UrlOrigin(u) == [scheme |-> u.scheme, host |-> u.host]

\* an origin that is not the widget's
OtherOrigin == [scheme |-> "https", host |-> "evil.example"]

Origins == {UrlOrigin(WIDGET_URL), OtherOrigin}

\* Allocation option: the `allocations` field of a payload, possibly absent
AllocNone == [some |-> FALSE, v |-> <<>>]
AllocSome(s) == [some |-> TRUE, v |-> s]
Alloc(c, a) == [campaign |-> c, amount |-> a]

\* payloads all share one record shape; `present` is FALSE for an envelope
\* that carries no payload (message.payload === undefined)
NoPayload == [present |-> FALSE, sessionId |-> "", stype |-> "", allocs |-> AllocNone, total |-> 0]
Payload(sid, ty, al, tot) == [present |-> TRUE, sessionId |-> sid, stype |-> ty, allocs |-> al, total |-> tot]

ReadyPayloads == {Payload("s1", "add_on", AllocNone, 0), Payload("s2", "add_on", AllocNone, 0),
                  NoPayload}

SessionPayloads == {Payload("s1", "add_on", AllocNone, 0),
                    Payload("s1", "portion_of_sales", AllocSome(<<Alloc("c1", 3)>>), 0),
                    NoPayload}

AllocPayloads == {Payload("", "", AllocSome(<<Alloc("c1", 3), Alloc("c2", 2)>>), 5),
                  Payload("", "", AllocSome(<<Alloc("c1", 3)>>), 4),
                  Payload("", "", AllocNone, 0),
                  NoPayload}

OtherPayloads == {Payload("", "", AllocNone, 0), NoPayload}

\* event.data of an inbound window message.  shape "envelope" is an object
\* with a type discriminant; the others are what an untrusted sender can post.
Envelope(ty, p) == [shape |-> "envelope", type |-> ty, payload |-> p]
Malformed(sh) == [shape |-> sh, type |-> "", payload |-> NoPayload]

InboundData ==
    {Envelope("ready", p) : p \in ReadyPayloads}
    \cup {Envelope("session-updated", p) : p \in SessionPayloads}
    \cup {Envelope("allocations-updated", p) : p \in AllocPayloads}
    \cup {Envelope("resize", p) : p \in OtherPayloads}
    \cup {Malformed(sh) : sh \in {"null", "notype"}}

\* what a sender other than the widget posts in the explored runs
ForgedData ==
    {Envelope("ready", Payload("s2", "add_on", AllocNone, 0)),
     Envelope("session-updated", Payload("s1", "portion_of_sales", AllocSome(<<Alloc("c1", 3)>>), 0))}

\* @ddc/shared isWidgetMessage: a non-null object with a type discriminant
isWidgetMessage(d) == d.shape = "envelope"

\* events a caller subscribes to in the explored runs
UserEvents == {"ready", "session-updated"}
EventNames == {"ready", "session-updated", "allocations-updated", "resize", "error"}

\* handler identities: caller callbacks (id 2 throws when invoked), the
\* readyHandler closure of mount call id, the waitFor closure of wait id,
\* and the preview variant's session-id capture registered at construction
UserH(n) == [k |-> "user", id |-> n]
ReadyH(i) == [k |-> "rh", id |-> i]
WaitH(j) == [k |-> "wf", id |-> j]
PreviewH == [k |-> "pv", id |-> 0]
UserHandlers == {UserH(1), UserH(2)}
Throws(h) == h = UserH(2)

\* timers (setTimeout handles)
ReadyT(i) == [k |-> "ready", id |-> i]
InitT(f) == [k |-> "init", id |-> f]
WaitT(j) == [k |-> "wait", id |-> j]

\* cached Session Data: null, a payload object, or (after a cast of a missing
\* payload) undefined
SdNull == [kind |-> "null", v |-> NoPayload]
SdUndefined == [kind |-> "undefined", v |-> NoPayload]
SdData(p) == [kind |-> "data", v |-> p]

\* cached allocations: an array, or undefined
AlArr(s) == [def |-> TRUE, v |-> s]
AlUndefined == [def |-> FALSE, v |-> <<>>]

\* values of the config fields sessionId and secret: undefined, a number, or
\* a string given as its sequence of characters
Undefined == [t |-> "undefined", s |-> <<>>]
Num == [t |-> "number", s |-> <<>>]
Str(cs) == [t |-> "string", s |-> cs]

Whitespace == {" ", "\t", "\n"}

RECURSIVE TrimStart(_)
\* String.prototype.trim, leading part
TrimStart(cs) ==
    IF cs # <<>> /\ Head(cs) \in Whitespace THEN TrimStart(Tail(cs)) ELSE cs

RECURSIVE TrimEnd(_)
\* String.prototype.trim, trailing part
TrimEnd(cs) ==
    IF cs # <<>> /\ cs[Len(cs)] \in Whitespace THEN TrimEnd(SubSeq(cs, 1, Len(cs) - 1)) ELSE cs

\* String.prototype.trim
Trim(cs) == TrimEnd(TrimStart(cs))

\* the check without trim(): only the empty string is refused
NotNonEmptyStringUntrimmed(v) == v.t # "string" \/ v.s = <<>>

\* WidgetClient.constructor's test of one field:
\* !v || typeof v !== "string" || v.trim() === ""
NotNonEmptyString(v) == v.t # "string" \/ v.s = <<>> \/ Trim(v.s) = <<>>

\* the configs the constructor is called with
ValidConfig == [sessionId |-> Str(<<"s", "1">>), secret |-> Str(<<"k">>)]
Configs ==
    [sessionId : {Undefined, Num, Str(<<>>), Str(<<" ", "\t">>), Str(<<"s", "1">>),
                  Str(<<" ", "s", "1", " ">>)},
     secret : {Undefined, Str(<<>>), Str(<<" ">>), Str(<<"k">>)}]

\* the error WidgetClient.constructor throws for cfg, "ok" when it returns
WidgetClientConstructor(cfg) ==
    IF NotNonEmptyString(cfg.sessionId) \/ NotNonEmptyString(cfg.secret)
    THEN "InvalidConfig" ELSE "ok"

\* ---------------------------------------------------------------- helpers
RECURSIVE SeqFilterOut(_, _)
\* s without the elements in set X, order kept (Set.delete keeps insertion order)
SeqFilterOut(s, X) ==
    IF s = <<>> THEN <<>>
    ELSE IF Head(s) \in X THEN SeqFilterOut(Tail(s), X)
         ELSE <<Head(s)>> \o SeqFilterOut(Tail(s), X)

Range(s) == {s[n] : n \in 1..Len(s)}

\* Set.add: append unless already a member (insertion order, no duplicates)
SetAdd(s, h) == IF h \in Range(s) THEN s ELSE Append(s, h)

\* Set.delete
SetDelete(s, h) == SeqFilterOut(s, {h})

\* ------------------------------------------------------------------ state
VARIABLES
    config,             \* the constructor's argument
    sessionId,          \* WidgetClient.sessionId
    constructed,        \* "ok", or the error the constructor threw
    variant,            \* "live" (WidgetClient) or "preview" (PreviewWidgetClient)
    targetOrigin,       \* BaseWidgetClient.targetOrigin
    iframe,             \* BaseWidgetClient.iframe: NoFrame or the owned frame
    container,          \* BaseWidgetClient.container: "none" or "el"
    eventHandlers,      \* event name -> handlers in insertion order
    isWidgetReady,      \* readiness flag
    pendingMessages,    \* queue of outbound commands
    sessionData,        \* cached Session Data
    currentAllocations, \* cached allocations
    messageListener,    \* BaseWidgetClient.messageListener is non-null
    readyTimeoutId,     \* NoTimer or the mount call whose ready timer is stored
    previewSessionId,   \* PreviewWidgetClient.previewSessionId
    windowListeners,    \* this instance's "message" listeners on window
    attached,           \* frames of this instance attached to the document
    loaded,             \* frames whose load event has fired
    timers,             \* armed setTimeout handles
    nMounts,            \* mount() calls made so far
    mountPromise,       \* mount call -> state of the promise it returned
    nWaits,             \* waitFor() registrations made so far
    waitPromise,        \* wait id -> state of the promise waitFor returned
    sent,               \* postMessage calls made by the last step, in order
    invoked,            \* handler invocations made by the last step, in order
    initPosts,          \* frame -> init / preview-init envelopes posted to it
    last                \* the last step taken

vars == <<config, sessionId, constructed, variant, targetOrigin, iframe, container, eventHandlers, isWidgetReady,
          pendingMessages, sessionData, currentAllocations, messageListener,
          readyTimeoutId, previewSessionId, windowListeners, attached, loaded,
          timers, nMounts, mountPromise, nWaits, waitPromise, sent, invoked,
          initPosts, last>>

Variants == {"live", "preview"}

\* iframe.contentWindow: non-null exactly while the frame is in the document
ContentWindow(f, att) == IF f # NoFrame /\ f \in att THEN f ELSE NoWindow

\* outbound command envelopes; seq tells two refresh objects apart
Cmd(ty, n) == [type |-> ty, seq |-> n]
InitCmd(v) == IF v = "live" THEN Cmd("init", 0) ELSE Cmd("preview-init", 0)

\* postMessage with the wildcard target origin
PostWildcard(msg, f, org, rdy) ==
    [msg |-> msg, to |-> f, origin |-> [scheme |-> "*", host |-> "*"], ready |-> rdy]

\* one contentWindow.postMessage(message, targetOrigin) call
Post(msg, f, org, rdy) == [msg |-> msg, to |-> f, origin |-> org, ready |-> rdy]

\* sendMessageToWidget without the readiness gate
sendMessageToWidgetUngated(f, att, rdy, org, q, out, msg) ==
    IF ContentWindow(f, att) = NoWindow
    THEN [q |-> q, out |-> out]
    ELSE [q |-> q, out |-> Append(out, [msg |-> msg, to |-> f, origin |-> org, ready |-> rdy])]

\* sendMessageToWidget dropping, not queueing, what it cannot send yet
sendMessageToWidgetDropping(f, att, rdy, org, q, out, msg) ==
    IF ContentWindow(f, att) = NoWindow \/ (~rdy /\ msg.type \notin {"init", "preview-init"})
    THEN [q |-> q, out |-> out]
    ELSE [q |-> q, out |-> Append(out, [msg |-> msg, to |-> f, origin |-> org, ready |-> rdy])]

\* BaseWidgetClient.sendMessageToWidget on the fields it reads and writes;
\* q is the queue, out the posts made so far in this step
sendMessageToWidget(f, att, rdy, org, q, out, msg) ==
    IF ContentWindow(f, att) = NoWindow
    THEN [q |-> q, out |-> out]
    ELSE IF ~rdy /\ msg.type \notin {"init", "preview-init"}
         THEN [q |-> Append(q, msg), out |-> out]
         ELSE [q |-> q, out |-> Append(out, Post(msg, f, org, rdy))]

\* processPendingMessages taking the newest command first (pop, not shift)
processPendingMessagesLifo(f, att, rdy, org, q, out) ==
    IF rdy
    THEN [q |-> <<>>,
          out |-> out \o [n \in 1..Len(q) |->
                            [msg |-> q[Len(q) + 1 - n], to |-> f, origin |-> org, ready |-> rdy]]]
    ELSE [q |-> q, out |-> out]

RECURSIVE processPendingMessages(_, _, _, _, _, _)
\* BaseWidgetClient.processPendingMessages: shift and send while ready
processPendingMessages(f, att, rdy, org, q, out) ==
    IF Len(q) > 0 /\ rdy
    THEN LET r == sendMessageToWidget(f, att, rdy, org, Tail(q), out, Head(q))
         IN processPendingMessages(f, att, rdy, org, r.q, r.out)
    ELSE [q |-> q, out |-> out]

\* the fields destroy() reads and writes, as a record
Cur == [iframe |-> iframe, container |-> container, isWidgetReady |-> isWidgetReady,
        pendingMessages |-> pendingMessages, messageListener |-> messageListener,
        readyTimeoutId |-> readyTimeoutId, windowListeners |-> windowListeners,
        attached |-> attached, timers |-> timers, sent |-> <<>>]

\* destroy without the clearTimeout of the pending ready wait
destroyKeepsTimer(s) ==
    LET snd == IF ContentWindow(s.iframe, s.attached) # NoWindow /\ s.isWidgetReady
               THEN sendMessageToWidget(s.iframe, s.attached, s.isWidgetReady, targetOrigin,
                                        s.pendingMessages, s.sent, Cmd("destroy", 0))
               ELSE [q |-> s.pendingMessages, out |-> s.sent]
    IN [iframe |-> NoFrame,
        container |-> "none",
        isWidgetReady |-> FALSE,
        pendingMessages |-> <<>>,
        messageListener |-> FALSE,
        readyTimeoutId |-> s.readyTimeoutId,
        windowListeners |-> IF s.messageListener THEN s.windowListeners - 1
                            ELSE s.windowListeners,
        attached |-> s.attached \ {s.iframe},
        timers |-> s.timers,
        sent |-> snd.out]

\* destroy leaving the commands queued for the removed frame in the queue
destroyKeepsQueue(s) ==
    LET tm == IF s.readyTimeoutId # NoTimer
              THEN s.timers \ {ReadyT(s.readyTimeoutId)} ELSE s.timers
        snd == IF ContentWindow(s.iframe, s.attached) # NoWindow /\ s.isWidgetReady
               THEN sendMessageToWidget(s.iframe, s.attached, s.isWidgetReady, targetOrigin,
                                        s.pendingMessages, s.sent, Cmd("destroy", 0))
               ELSE [q |-> s.pendingMessages, out |-> s.sent]
    IN [iframe |-> NoFrame,
        container |-> "none",
        isWidgetReady |-> FALSE,
        pendingMessages |-> s.pendingMessages,
        messageListener |-> FALSE,
        readyTimeoutId |-> NoTimer,
        windowListeners |-> IF s.messageListener THEN s.windowListeners - 1
                            ELSE s.windowListeners,
        attached |-> s.attached \ {s.iframe},
        timers |-> tm,
        sent |-> snd.out]

\* destroy without the removeChild of the frame
destroyLeavesFrame(s) ==
    LET tm == IF s.readyTimeoutId # NoTimer
              THEN s.timers \ {ReadyT(s.readyTimeoutId)} ELSE s.timers
        snd == IF ContentWindow(s.iframe, s.attached) # NoWindow /\ s.isWidgetReady
               THEN sendMessageToWidget(s.iframe, s.attached, s.isWidgetReady, targetOrigin,
                                        s.pendingMessages, s.sent, Cmd("destroy", 0))
               ELSE [q |-> s.pendingMessages, out |-> s.sent]
    IN [iframe |-> NoFrame,
        container |-> "none",
        isWidgetReady |-> FALSE,
        pendingMessages |-> <<>>,
        messageListener |-> FALSE,
        readyTimeoutId |-> NoTimer,
        windowListeners |-> IF s.messageListener THEN s.windowListeners - 1
                            ELSE s.windowListeners,
        attached |-> s.attached,
        timers |-> tm,
        sent |-> snd.out]

\* BaseWidgetClient.destroy
destroy(s) ==
    LET tm == IF s.readyTimeoutId # NoTimer
              THEN s.timers \ {ReadyT(s.readyTimeoutId)} ELSE s.timers
        snd == IF ContentWindow(s.iframe, s.attached) # NoWindow /\ s.isWidgetReady
               THEN sendMessageToWidget(s.iframe, s.attached, s.isWidgetReady, targetOrigin,
                                        s.pendingMessages, s.sent, Cmd("destroy", 0))
               ELSE [q |-> s.pendingMessages, out |-> s.sent]
    IN [iframe |-> NoFrame,
        container |-> "none",
        isWidgetReady |-> FALSE,
        pendingMessages |-> <<>>,
        messageListener |-> FALSE,
        readyTimeoutId |-> NoTimer,
        windowListeners |-> IF s.messageListener THEN s.windowListeners - 1
                            ELSE s.windowListeners,
        attached |-> s.attached \ {s.iframe},
        timers |-> tm,
        sent |-> snd.out]

\* off(event) sparing the closures the client registered itself
offAllCallbacksOnly(eh, e) ==
    [eh EXCEPT ![e] = SeqFilterOut(@, {h \in Range(@) : h.k = "user"})]

\* on() keeping the handlers in an array it pushes to
onPush(eh, e, h) == [eh EXCEPT ![e] = Append(@, h)]

\* BaseWidgetClient.on / off on one event's handler set
on(eh, e, h) == [eh EXCEPT ![e] = SetAdd(@, h)]
off(eh, e, h) == [eh EXCEPT ![e] = SetDelete(@, h)]
offAll(eh, e) == [eh EXCEPT ![e] = <<>>]

\* WidgetClient.getSessionId / PreviewWidgetClient.getSessionId
getSessionId == IF variant = "live" THEN sessionId ELSE previewSessionId

\* the synchronous accessors
isReady == isWidgetReady
getSessionData == sessionData
getAllocations == currentAllocations

\* ------------------------------------------------------------------- Init
\* the state after `new WidgetClient(cfg)` / `new PreviewWidgetClient(cfg)`;
\* the preview constructor reads neither sessionId nor secret
Constructed(cfg) ==
    /\ config = cfg
    /\ constructed = IF variant = "live" THEN WidgetClientConstructor(cfg) ELSE "ok"
    /\ sessionId = IF variant = "live" /\ WidgetClientConstructor(cfg) = "ok"
                   THEN cfg.sessionId ELSE Undefined
    /\ targetOrigin = UrlOrigin(WIDGET_URL)
    /\ iframe = NoFrame
    /\ container = "none"
    /\ eventHandlers = [e \in EventNames |->
                          IF e = "ready" /\ variant = "preview" THEN <<PreviewH>> ELSE <<>>]
    /\ isWidgetReady = FALSE
    /\ pendingMessages = <<>>
    /\ sessionData = SdNull
    /\ currentAllocations = AlArr(<<>>)
    /\ messageListener = TRUE
    /\ readyTimeoutId = NoTimer
    /\ previewSessionId = ""
    /\ windowListeners = 1
    /\ attached = {}
    /\ loaded = {}
    /\ timers = {}
    /\ nMounts = 0
    /\ mountPromise = [i \in 1..MaxMounts |-> "none"]
    /\ nWaits = 0
    /\ waitPromise = [j \in 1..MaxWaits |-> [event |-> "", state |-> "none", value |-> NoPayload]]
    /\ sent = <<>>
    /\ invoked = <<>>
    /\ initPosts = [f \in 1..MaxMounts |-> 0]
    /\ last = [op |-> "new"]

\* a widget constructed from a valid config
Init ==
    /\ variant \in Variants
    /\ Constructed(ValidConfig)

\* the live constructor called with any of the configs
InitConstruct ==
    /\ variant = "live"
    /\ \E cfg \in Configs : Constructed(cfg)

\* ------------------------------------------------------------------- emit
\* the handlers of kind k among hs
OfKind(hs, k) == {h \in Range(hs) : h.k = k}

\* emit with one try/catch around the whole loop: the first handler that
\* throws ends the emission
emitAbortOnThrow(st, e, p) ==
    LET all == st.eventHandlers[e]
        bad == {n \in 1..Len(all) : Throws(all[n])}
        hs == IF bad = {} THEN all
              ELSE SubSeq(all, 1, CHOOSE n \in bad : \A m \in bad : n <= m)
        rhs == {h \in Range(hs) : h.k = "rh"}
        wfs == {h \in Range(hs) : h.k = "wf"}
    IN [eventHandlers |-> [st.eventHandlers EXCEPT ![e] = SeqFilterOut(@, rhs \cup wfs)],
        timers |-> st.timers \ ({ReadyT(h.id) : h \in rhs} \cup {WaitT(h.id) : h \in wfs}),
        readyTimeoutId |-> IF rhs # {} THEN NoTimer ELSE st.readyTimeoutId,
        mountPromise |-> [i \in DOMAIN st.mountPromise |->
                            IF ReadyH(i) \in rhs /\ p.present /\ st.mountPromise[i] = "pending"
                            THEN "resolved" ELSE st.mountPromise[i]],
        waitPromise |-> [j \in DOMAIN st.waitPromise |->
                            IF WaitH(j) \in wfs /\ st.waitPromise[j].state = "pending"
                            THEN [st.waitPromise[j] EXCEPT !.state = "resolved", !.value = p]
                            ELSE st.waitPromise[j]],
        previewSessionId |-> IF PreviewH \in Range(hs) /\ p.present /\ p.sessionId # ""
                             THEN p.sessionId ELSE st.previewSessionId,
        invoked |-> [n \in 1..Len(hs) |->
                       [h |-> hs[n], event |-> e, data |-> p, seen |-> st.view]]]

\* emit whose waitFor closures resolve without deregistering themselves
emitKeepsWaiters(st, e, p) ==
    LET hs == st.eventHandlers[e]
        rhs == {h \in Range(hs) : h.k = "rh"}
        wfs == {h \in Range(hs) : h.k = "wf"}
    IN [eventHandlers |-> [st.eventHandlers EXCEPT ![e] = SeqFilterOut(@, rhs)],
        timers |-> st.timers \ ({ReadyT(h.id) : h \in rhs} \cup {WaitT(h.id) : h \in wfs}),
        readyTimeoutId |-> IF rhs # {} THEN NoTimer ELSE st.readyTimeoutId,
        mountPromise |-> [i \in DOMAIN st.mountPromise |->
                            IF ReadyH(i) \in rhs /\ p.present /\ st.mountPromise[i] = "pending"
                            THEN "resolved" ELSE st.mountPromise[i]],
        waitPromise |-> [j \in DOMAIN st.waitPromise |->
                            IF WaitH(j) \in wfs /\ st.waitPromise[j].state = "pending"
                            THEN [st.waitPromise[j] EXCEPT !.state = "resolved", !.value = p]
                            ELSE st.waitPromise[j]],
        previewSessionId |-> IF PreviewH \in Range(hs) /\ p.present /\ p.sessionId # ""
                             THEN p.sessionId ELSE st.previewSessionId,
        invoked |-> [n \in 1..Len(hs) |->
                       [h |-> hs[n], event |-> e, data |-> p, seen |-> st.view]]]

\* BaseWidgetClient.emit(e, p): every handler of e runs once, in insertion
\* order, each in its own try/catch.  The closures registered by
\* waitForReady and waitFor deregister themselves and settle their promise;
\* the preview capture stores the session id; caller callbacks change nothing
\* here (those that throw are caught).  st holds the fields handlers write.
emit(st, e, p) ==
    LET hs == st.eventHandlers[e]
        rhs == OfKind(hs, "rh")
        wfs == OfKind(hs, "wf")
    IN [eventHandlers |-> [st.eventHandlers EXCEPT ![e] = SeqFilterOut(@, rhs \cup wfs)],
        timers |-> st.timers \ ({ReadyT(h.id) : h \in rhs} \cup {WaitT(h.id) : h \in wfs}),
        readyTimeoutId |-> IF rhs # {} THEN NoTimer ELSE st.readyTimeoutId,
        \* readyHandler: cleanup(); resolve(data.sessionId) -- reading
        \* .sessionId of an undefined payload throws after cleanup
        mountPromise |-> [i \in DOMAIN st.mountPromise |->
                            IF ReadyH(i) \in rhs /\ p.present /\ st.mountPromise[i] = "pending"
                            THEN "resolved" ELSE st.mountPromise[i]],
        waitPromise |-> [j \in DOMAIN st.waitPromise |->
                            IF WaitH(j) \in wfs /\ st.waitPromise[j].state = "pending"
                            THEN [st.waitPromise[j] EXCEPT !.state = "resolved", !.value = p]
                            ELSE st.waitPromise[j]],
        previewSessionId |-> IF PreviewH \in Range(hs) /\ p.present /\ p.sessionId # ""
                             THEN p.sessionId ELSE st.previewSessionId,
        invoked |-> [n \in 1..Len(hs) |->
                       [h |-> hs[n], event |-> e, data |-> p, seen |-> st.view]]]

\* what a handler would see if the listener emitted before its updates
HandlerViewStale(rdy, q, out, sd, al) ==
    [isReady |-> isWidgetReady, pendingMessages |-> pendingMessages, sent |-> <<>>,
     getSessionData |-> sessionData, getAllocations |-> currentAllocations]

\* what a handler sees through the accessors while the listener's emit runs:
\* the values the listener has written before it reaches emit
HandlerView(rdy, q, out, sd, al) ==
    [isReady |-> rdy, pendingMessages |-> q, sent |-> out,
     getSessionData |-> sd, getAllocations |-> al]

\* the fields emit's handlers read and write
EmitCur == [eventHandlers |-> eventHandlers, timers |-> timers,
            readyTimeoutId |-> readyTimeoutId, mountPromise |-> mountPromise,
            waitPromise |-> waitPromise, previewSessionId |-> previewSessionId,
            invoked |-> <<>>,
            view |-> [isReady |-> isWidgetReady, pendingMessages |-> pendingMessages,
                      sent |-> <<>>, getSessionData |-> sessionData,
                      getAllocations |-> currentAllocations]]

\* ---------------------------------------------------------------- actions
\* frames this instance has created so far
Frames == {i \in 1..nMounts : mountPromise[i] # "ContainerNotFound"}

\* BaseWidgetClient.mount(container) up to its first await: implicit destroy,
\* container lookup, createIframe, waitForReady's executor
Mount(found) ==
    /\ nMounts < MaxMounts
    /\ LET i == nMounts + 1
           s == IF iframe # NoFrame THEN destroy(Cur) ELSE Cur
       IN /\ nMounts' = i
          /\ sent' = s.sent
          /\ messageListener' = s.messageListener
          /\ windowListeners' = s.windowListeners
          /\ isWidgetReady' = s.isWidgetReady
          /\ pendingMessages' = s.pendingMessages
          /\ IF ~found
             THEN \* throw WidgetErrors.containerNotFound
                  /\ mountPromise' = [mountPromise EXCEPT ![i] = "ContainerNotFound"]
                  /\ iframe' = s.iframe
                  /\ container' = s.container
                  /\ attached' = s.attached
                  /\ timers' = s.timers
                  /\ readyTimeoutId' = s.readyTimeoutId
                  /\ UNCHANGED eventHandlers
             ELSE \* createIframe: the new frame is appended to the container
                  /\ iframe' = i
                  /\ container' = "el"
                  /\ attached' = s.attached \cup {i}
                  /\ IF s.isWidgetReady
                     THEN \* waitForReady resolves at once
                          /\ mountPromise' = [mountPromise EXCEPT ![i] = "resolved"]
                          /\ timers' = s.timers
                          /\ readyTimeoutId' = s.readyTimeoutId
                          /\ UNCHANGED eventHandlers
                     ELSE /\ mountPromise' = [mountPromise EXCEPT ![i] = "pending"]
                          /\ timers' = s.timers \cup {ReadyT(i)}
                          /\ readyTimeoutId' = i
                          /\ eventHandlers' = on(eventHandlers, "ready", ReadyH(i))
          /\ last' = [op |-> "mount", id |-> i, found |-> found, hadFrame |-> iframe # NoFrame,
                       wasReady |-> isWidgetReady]
    /\ invoked' = <<>>
    /\ UNCHANGED <<config, sessionId, constructed, variant, targetOrigin, sessionData, currentAllocations,
                   previewSessionId, loaded, nWaits, waitPromise, initPosts>>

\* destroy() that also clears the handler registry
DestroyClearsRegistry ==
    /\ LET s == destroy(Cur)
       IN /\ iframe' = s.iframe
          /\ container' = s.container
          /\ isWidgetReady' = s.isWidgetReady
          /\ pendingMessages' = s.pendingMessages
          /\ messageListener' = s.messageListener
          /\ readyTimeoutId' = s.readyTimeoutId
          /\ windowListeners' = s.windowListeners
          /\ attached' = s.attached
          /\ timers' = s.timers
          /\ sent' = s.sent
    /\ eventHandlers' = [e \in EventNames |-> <<>>]
    /\ invoked' = <<>>
    /\ last' = [op |-> "destroy", hadFrame |-> iframe # NoFrame, wasReady |-> isWidgetReady]
    /\ UNCHANGED <<config, sessionId, constructed, variant, targetOrigin, sessionData, currentAllocations,
                   previewSessionId, loaded, nMounts, mountPromise, nWaits, waitPromise,
                   initPosts>>

\* BaseWidgetClient.destroy() called by the host page
Destroy ==
    /\ LET s == destroy(Cur)
       IN /\ iframe' = s.iframe
          /\ container' = s.container
          /\ isWidgetReady' = s.isWidgetReady
          /\ pendingMessages' = s.pendingMessages
          /\ messageListener' = s.messageListener
          /\ readyTimeoutId' = s.readyTimeoutId
          /\ windowListeners' = s.windowListeners
          /\ attached' = s.attached
          /\ timers' = s.timers
          /\ sent' = s.sent
    /\ invoked' = <<>>
    /\ last' = [op |-> "destroy", hadFrame |-> iframe # NoFrame, wasReady |-> isWidgetReady]
    /\ UNCHANGED <<config, sessionId, constructed, variant, targetOrigin, eventHandlers, sessionData, currentAllocations,
                   previewSessionId, loaded, nMounts, mountPromise, nWaits, waitPromise,
                   initPosts>>

\* the frame's load event: createIframe's listener calls sendInitMessage,
\* which arms the init delay timer
FrameLoad(f) ==
    /\ f \in attached
    /\ f \notin loaded
    /\ loaded' = loaded \cup {f}
    /\ timers' = timers \cup {InitT(f)}
    /\ sent' = <<>>
    /\ invoked' = <<>>
    /\ last' = [op |-> "load", frame |-> f]
    /\ UNCHANGED <<config, sessionId, constructed, variant, targetOrigin, iframe, container, eventHandlers, isWidgetReady,
                   pendingMessages, sessionData, currentAllocations, messageListener,
                   readyTimeoutId, previewSessionId, windowListeners, attached, nMounts,
                   mountPromise, nWaits, waitPromise, initPosts>>

\* the init delay timer armed by frame f's load fires: sendInitMessage's
\* callback sends init / preview-init through sendMessageToWidget
InitTimerFire(f) ==
    /\ InitT(f) \in timers
    /\ timers' = timers \ {InitT(f)}
    /\ LET r == sendMessageToWidget(iframe, attached, isWidgetReady, targetOrigin,
                                    pendingMessages, <<>>, InitCmd(variant))
       IN /\ pendingMessages' = r.q
          /\ sent' = r.out
          /\ initPosts' = IF r.out # <<>>
                          THEN [initPosts EXCEPT ![iframe] = @ + 1]
                          ELSE initPosts
    /\ invoked' = <<>>
    /\ last' = [op |-> "initTimer", frame |-> f]
    /\ UNCHANGED <<config, sessionId, constructed, variant, targetOrigin, iframe, container, eventHandlers, isWidgetReady,
                   sessionData, currentAllocations, messageListener, readyTimeoutId,
                   previewSessionId, windowListeners, attached, loaded, nMounts,
                   mountPromise, nWaits, waitPromise>>

\* the timeout callback cleaning up without rejecting
ReadyTimerFireNoReject(i) ==
    /\ ReadyT(i) \in timers
    /\ timers' = timers \ {ReadyT(i)}
    /\ readyTimeoutId' = NoTimer
    /\ eventHandlers' = off(eventHandlers, "ready", ReadyH(i))
    /\ sent' = <<>>
    /\ invoked' = <<>>
    /\ last' = [op |-> "readyTimer", id |-> i]
    /\ UNCHANGED <<config, sessionId, constructed, variant, targetOrigin, iframe, container, isWidgetReady, pendingMessages,
                   sessionData, currentAllocations, messageListener, previewSessionId,
                   windowListeners, attached, loaded, nMounts, nWaits, waitPromise, initPosts,
                   mountPromise>>

\* waitForReady's timeout callback of mount call i: cleanup(), then reject
ReadyTimerFire(i) ==
    /\ ReadyT(i) \in timers
    /\ timers' = timers \ {ReadyT(i)}
    /\ readyTimeoutId' = NoTimer
    /\ eventHandlers' = off(eventHandlers, "ready", ReadyH(i))
    /\ mountPromise' = [mountPromise EXCEPT ![i] = IF @ = "pending" THEN "Timeout" ELSE @]
    /\ sent' = <<>>
    /\ invoked' = <<>>
    /\ last' = [op |-> "readyTimer", id |-> i]
    /\ UNCHANGED <<config, sessionId, constructed, variant, targetOrigin, iframe, container, isWidgetReady, pendingMessages,
                   sessionData, currentAllocations, messageListener, previewSessionId,
                   windowListeners, attached, loaded, nMounts, nWaits, waitPromise, initPosts>>

\* the content window of the frame the instance owns now
OwnedWindow == ContentWindow(iframe, attached)

\* the source check reduced to "a frame is mounted"
FromOwnedFrameAnySource(src) == iframe # NoFrame

\* the listener's source check: the message comes from the owned frame
FromOwnedFrame(src) == iframe # NoFrame /\ src = ContentWindow(iframe, attached)

\* the invalid branch surfacing the failure to "error" subscribers
InvalidBranchEmitsError(st) == emit(st, "error", NoPayload)

\* the listener's branch for data that fails isWidgetMessage: log and return
InvalidBranch(st) == st

\* reading a field of message.payload throws a TypeError when the envelope
\* has no payload: handleResize(data).height, sessionData.allocations,
\* allocationsData.allocations; the listener's catch swallows it
PayloadReadThrows(d) ==
    d.type \in {"resize", "session-updated", "allocations-updated"} /\ ~d.payload.present

\* the Session Data cache if allocations-updated rewrote the cached object too
SessionAfterFromAllocations(d) ==
    IF d.type \in {"session-updated", "allocations-updated"}
    THEN IF d.payload.present THEN SdData(d.payload) ELSE SdUndefined
    ELSE sessionData

\* the Session Data cache after the listener's session-updated branch
SessionAfter(d) ==
    IF d.type = "session-updated"
    THEN IF d.payload.present THEN SdData(d.payload) ELSE SdUndefined
    ELSE sessionData

\* the allocations cache without the `|| []` default
AllocationsAfterNoDefault(d) ==
    IF d.type \in {"session-updated", "allocations-updated"} /\ d.payload.present
    THEN IF d.payload.allocs.some THEN AlArr(d.payload.allocs.v) ELSE AlUndefined
    ELSE currentAllocations

\* the allocations cache after the listener's session-updated and
\* allocations-updated branches
AllocationsAfter(d) ==
    IF d.type = "session-updated" /\ d.payload.present
    THEN AlArr(IF d.payload.allocs.some THEN d.payload.allocs.v ELSE <<>>)
    ELSE IF d.type = "allocations-updated" /\ d.payload.present
         THEN IF d.payload.allocs.some THEN AlArr(d.payload.allocs.v) ELSE AlUndefined
         ELSE currentAllocations

\* a "message" event on window with event.source = src, event.origin = org,
\* event.data = d: the listener installed by setupMessageListener, if it is
\* still registered
Receive(src, org, d) ==
    /\ src \in Frames \cup {ForeignWindow}
    /\ last' = [op |-> "receive", owned |-> src = OwnedWindow, heard |-> windowListeners > 0,
                 origin |-> org, data |-> d]
    /\ IF windowListeners = 0 \/ ~FromOwnedFrame(src)
       THEN /\ sent' = <<>>
            /\ invoked' = <<>>
            /\ UNCHANGED <<isWidgetReady, pendingMessages, sessionData, currentAllocations,
                           eventHandlers, timers, readyTimeoutId, mountPromise, waitPromise,
                           previewSessionId>>
       ELSE IF ~isWidgetMessage(d)
       THEN LET em == InvalidBranch(EmitCur)
            IN /\ sent' = <<>>
               /\ eventHandlers' = em.eventHandlers
               /\ timers' = em.timers
               /\ readyTimeoutId' = em.readyTimeoutId
               /\ mountPromise' = em.mountPromise
               /\ waitPromise' = em.waitPromise
               /\ previewSessionId' = em.previewSessionId
               /\ invoked' = em.invoked
               /\ UNCHANGED <<isWidgetReady, pendingMessages, sessionData, currentAllocations>>
       ELSE LET isReadyMsg == d.type = "ready"
                rdy == IF isReadyMsg THEN TRUE ELSE isWidgetReady
                pp == IF isReadyMsg
                      THEN processPendingMessages(iframe, attached, rdy, targetOrigin,
                                                  pendingMessages, <<>>)
                      ELSE [q |-> pendingMessages, out |-> <<>>]
                em == IF PayloadReadThrows(d) THEN EmitCur
                      ELSE emit([EmitCur EXCEPT !.view =
                                    HandlerView(rdy, pp.q, pp.out,
                                                SessionAfter(d), AllocationsAfter(d))],
                                d.type, d.payload)
            IN /\ isWidgetReady' = rdy
               /\ pendingMessages' = pp.q
               /\ sent' = pp.out
               /\ sessionData' = SessionAfter(d)
               /\ currentAllocations' = AllocationsAfter(d)
               /\ eventHandlers' = em.eventHandlers
               /\ timers' = em.timers
               /\ readyTimeoutId' = em.readyTimeoutId
               /\ mountPromise' = em.mountPromise
               /\ waitPromise' = em.waitPromise
               /\ previewSessionId' = em.previewSessionId
               /\ invoked' = em.invoked
    /\ UNCHANGED <<config, sessionId, constructed, variant, targetOrigin, iframe, container, messageListener,
                   windowListeners, attached, loaded, nMounts, nWaits, initPosts>>

\* widget.on(e, h) by the host page
On(e, h) ==
    /\ eventHandlers' = on(eventHandlers, e, h)
    /\ sent' = <<>>
    /\ invoked' = <<>>
    /\ last' = [op |-> "on", event |-> e, h |-> h, returns |-> "this"]
    /\ UNCHANGED <<config, sessionId, constructed, variant, targetOrigin, iframe, container, isWidgetReady, pendingMessages,
                   sessionData, currentAllocations, messageListener, readyTimeoutId,
                   previewSessionId, windowListeners, attached, loaded, timers, nMounts,
                   mountPromise, nWaits, waitPromise, initPosts>>

\* widget.off(e, h) by the host page
Off(e, h) ==
    /\ eventHandlers' = off(eventHandlers, e, h)
    /\ sent' = <<>>
    /\ invoked' = <<>>
    /\ last' = [op |-> "off", event |-> e, h |-> h]
    /\ UNCHANGED <<config, sessionId, constructed, variant, targetOrigin, iframe, container, isWidgetReady, pendingMessages,
                   sessionData, currentAllocations, messageListener, readyTimeoutId,
                   previewSessionId, windowListeners, attached, loaded, timers, nMounts,
                   mountPromise, nWaits, waitPromise, initPosts>>

\* widget.off(e) by the host page: every handler of e is dropped
OffAll(e) ==
    /\ eventHandlers' = offAll(eventHandlers, e)
    /\ sent' = <<>>
    /\ invoked' = <<>>
    /\ last' = [op |-> "offAll", event |-> e]
    /\ UNCHANGED <<config, sessionId, constructed, variant, targetOrigin, iframe, container, isWidgetReady, pendingMessages,
                   sessionData, currentAllocations, messageListener, readyTimeoutId,
                   previewSessionId, windowListeners, attached, loaded, timers, nMounts,
                   mountPromise, nWaits, waitPromise, initPosts>>

\* BaseWidgetClient.waitFor(e): arm the timer, register the closure
waitFor(j, e) ==
    /\ nWaits' = j
    /\ timers' = timers \cup {WaitT(j)}
    /\ eventHandlers' = on(eventHandlers, e, WaitH(j))
    /\ waitPromise' = [waitPromise EXCEPT ![j] = [event |-> e, state |-> "pending",
                                                  value |-> NoPayload]]

\* widget.waitFor(e) by the host page
WaitFor(e) ==
    /\ nWaits < MaxWaits
    /\ waitFor(nWaits + 1, e)
    /\ sent' = <<>>
    /\ invoked' = <<>>
    /\ last' = [op |-> "waitFor", id |-> nWaits + 1, event |-> e]
    /\ UNCHANGED <<config, sessionId, constructed, variant, targetOrigin, iframe, container, isWidgetReady, pendingMessages,
                   sessionData, currentAllocations, messageListener, readyTimeoutId,
                   previewSessionId, windowListeners, attached, loaded, nMounts,
                   mountPromise, initPosts>>

\* the timeout callback rejecting without off(event, handler)
WaitTimerFireKeepsHandler(j) ==
    /\ WaitT(j) \in timers
    /\ timers' = timers \ {WaitT(j)}
    /\ waitPromise' = [waitPromise EXCEPT ![j].state = IF @ = "pending" THEN "Timeout" ELSE @]
    /\ sent' = <<>>
    /\ invoked' = <<>>
    /\ last' = [op |-> "waitTimer", id |-> j]
    /\ UNCHANGED <<config, sessionId, constructed, variant, targetOrigin, iframe, container, isWidgetReady, pendingMessages,
                   sessionData, currentAllocations, messageListener, readyTimeoutId,
                   previewSessionId, windowListeners, attached, loaded, nMounts,
                   mountPromise, nWaits, initPosts, eventHandlers>>

\* waitFor's timeout callback: off(event, handler), reject
WaitTimerFire(j) ==
    /\ WaitT(j) \in timers
    /\ timers' = timers \ {WaitT(j)}
    /\ eventHandlers' = off(eventHandlers, waitPromise[j].event, WaitH(j))
    /\ waitPromise' = [waitPromise EXCEPT ![j].state = IF @ = "pending" THEN "Timeout" ELSE @]
    /\ sent' = <<>>
    /\ invoked' = <<>>
    /\ last' = [op |-> "waitTimer", id |-> j]
    /\ UNCHANGED <<config, sessionId, constructed, variant, targetOrigin, iframe, container, isWidgetReady, pendingMessages,
                   sessionData, currentAllocations, messageListener, readyTimeoutId,
                   previewSessionId, windowListeners, attached, loaded, nMounts,
                   mountPromise, nWaits, initPosts>>

\* refresh() sending the command and returning without waiting
RefreshLiveNoWait ==
    /\ variant = "live"
    /\ nWaits < MaxWaits
    /\ LET j == nWaits + 1
           r == sendMessageToWidget(iframe, attached, isWidgetReady, targetOrigin,
                                    pendingMessages, <<>>, Cmd("refresh", j))
       IN /\ pendingMessages' = r.q
          /\ sent' = r.out
          /\ nWaits' = j
          /\ waitPromise' = [waitPromise EXCEPT ![j] = [event |-> "session-updated",
                                                        state |-> "resolved",
                                                        value |-> NoPayload]]
          /\ last' = [op |-> "refresh", id |-> j, promise |-> "resolved"]
    /\ invoked' = <<>>
    /\ UNCHANGED <<config, sessionId, constructed, variant, targetOrigin, iframe, container, isWidgetReady, sessionData,
                   currentAllocations, messageListener, readyTimeoutId, previewSessionId,
                   windowListeners, attached, loaded, nMounts, mountPromise, initPosts,
                   eventHandlers, timers>>

\* WidgetClient.refresh(): send the refresh command, then wait for
\* session-updated
RefreshLive ==
    /\ variant = "live"
    /\ nWaits < MaxWaits
    /\ LET j == nWaits + 1
           r == sendMessageToWidget(iframe, attached, isWidgetReady, targetOrigin,
                                    pendingMessages, <<>>, Cmd("refresh", j))
       IN /\ pendingMessages' = r.q
          /\ sent' = r.out
          /\ waitFor(j, "session-updated")
          /\ last' = [op |-> "refresh", id |-> j, promise |-> "pending"]
    /\ invoked' = <<>>
    /\ UNCHANGED <<config, sessionId, constructed, variant, targetOrigin, iframe, container, isWidgetReady, sessionData,
                   currentAllocations, messageListener, readyTimeoutId, previewSessionId,
                   windowListeners, attached, loaded, nMounts, mountPromise, initPosts>>

\* the preview variant's refresh() sending the command like the live one
RefreshPreviewSends ==
    /\ variant = "preview"
    /\ LET r == sendMessageToWidget(iframe, attached, isWidgetReady, targetOrigin,
                                    pendingMessages, <<>>, Cmd("refresh", 0))
       IN /\ pendingMessages' = r.q
          /\ sent' = r.out
    /\ invoked' = <<>>
    /\ last' = [op |-> "refresh", id |-> 0, promise |-> "resolved"]
    /\ UNCHANGED <<config, sessionId, constructed, variant, targetOrigin, iframe, container, eventHandlers, isWidgetReady,
                   sessionData, currentAllocations, messageListener,
                   readyTimeoutId, previewSessionId, windowListeners, attached, loaded,
                   timers, nMounts, mountPromise, nWaits, waitPromise, initPosts>>

\* PreviewWidgetClient.refresh(): logs and returns
RefreshPreview ==
    /\ variant = "preview"
    /\ sent' = <<>>
    /\ invoked' = <<>>
    /\ last' = [op |-> "refresh", id |-> 0, promise |-> "resolved"]
    /\ UNCHANGED <<config, sessionId, constructed, variant, targetOrigin, iframe, container, eventHandlers, isWidgetReady,
                   pendingMessages, sessionData, currentAllocations, messageListener,
                   readyTimeoutId, previewSessionId, windowListeners, attached, loaded,
                   timers, nMounts, mountPromise, nWaits, waitPromise, initPosts>>

\* ------------------------------------------------------------ specification
\* the host page's lifecycle calls and the browser's frame and timer events
Lifecycle ==
    \/ \E found \in BOOLEAN : Mount(found)
    \/ Destroy
    \/ \E f \in 1..MaxMounts : FrameLoad(f)
    \/ \E f \in 1..MaxMounts : InitTimerFire(f)
    \/ \E i \in 1..MaxMounts : ReadyTimerFire(i)

\* the widget posts d from the owned frame
FromWidget(D) ==
    \E d \in D : \E src \in 1..MaxMounts :
        src = OwnedWindow /\ Receive(src, UrlOrigin(WIDGET_URL), d)

\* any window (a foreign one, a frame of this instance, owned or detached)
\* posts d with any origin
FromAnyone(D) ==
    \E d \in D : \E src \in (1..MaxMounts) \cup {ForeignWindow}, org \in Origins :
        Receive(src, org, d)

\* the host page's subscription calls
Subscriptions(E, H) ==
    \/ \E e \in E, h \in H : On(e, h)
    \/ \E e \in E, h \in H : Off(e, h)
    \/ \E e \in E : OffAll(e)

\* the whole system
Next ==
    \/ Lifecycle
    \/ FromWidget(InboundData)
    \/ FromAnyone(ForgedData)
    \/ Subscriptions(UserEvents, UserHandlers)
    \/ \E e \in UserEvents : WaitFor(e)
    \/ \E j \in 1..MaxWaits : WaitTimerFire(j)
    \/ RefreshLive
    \/ RefreshPreview

Spec == Init /\ [][Next]_vars

\* The whole system is the product of concerns that do not read each other's
\* fields; the specifications below are its slices, each keeping every action
\* that writes a field its claims read.

ReadyS1 == Envelope("ready", Payload("s1", "add_on", AllocNone, 0))
ReadyS2 == Envelope("ready", Payload("s2", "add_on", AllocNone, 0))

\* mount / destroy / remount and the readiness handshake
NextLifecycle ==
    \/ Lifecycle
    \/ FromWidget({ReadyS1, Envelope("ready", NoPayload), Malformed("null")})
    \/ FromAnyone({ReadyS2})
    \/ OffAll("ready")

SpecLifecycle == Init /\ [][NextLifecycle]_vars

\* the same, with the browser's guarantee that an armed timer that is not
\* cleared fires
SpecLifecycleFair ==
    /\ Init /\ [][NextLifecycle]_vars
    /\ \A i \in 1..MaxMounts : WF_vars(ReadyTimerFire(i))
    /\ \A f \in 1..MaxMounts : WF_vars(InitTimerFire(f))

\* outbound commands: the pending queue and the posts
NextQueue ==
    \/ Lifecycle
    \/ FromWidget({ReadyS1})
    \/ FromAnyone({ReadyS2})
    \/ RefreshLive
    \/ RefreshPreview

SpecQueue == Init /\ [][NextQueue]_vars

\* inbound messages: the listener's checks and the cached state
NextInbound ==
    \/ \E found \in BOOLEAN : Mount(found)
    \/ Destroy
    \/ FromWidget(InboundData)
    \/ FromAnyone(ForgedData)
    \/ Subscriptions({"session-updated", "error"}, {UserH(1)})

SpecInbound == Init /\ [][NextInbound]_vars

\* a session-updated notification of the live widget
SessionS1 == Envelope("session-updated", Payload("s1", "add_on", AllocNone, 0))

\* the notifications the event bus carries in its slice: the total of the
\* second is not the sum of its amounts
AllocGood ==
    Envelope("allocations-updated",
             Payload("", "", AllocSome(<<Alloc("c1", 3), Alloc("c2", 2)>>), 5))
AllocBadTotal ==
    Envelope("allocations-updated", Payload("", "", AllocSome(<<Alloc("c1", 3)>>), 4))

BusEvents == {"session-updated", "allocations-updated"}

\* the event bus: on / off / emit / waitFor
NextBus ==
    \/ Mount(TRUE)
    \/ FromWidget({AllocGood, AllocBadTotal})
    \/ \E h \in UserHandlers : On("allocations-updated", h)
    \/ On("session-updated", UserH(1))
    \/ \E e \in BusEvents : OffAll(e)
    \/ WaitFor("allocations-updated")
    \/ \E j \in 1..MaxWaits : WaitTimerFire(j)

SpecBus == Init /\ [][NextBus]_vars

\* refresh(): the command, the wait for session-updated and its timeout
NextRefresh ==
    \/ Mount(TRUE)
    \/ Destroy
    \/ FromWidget({ReadyS1, SessionS1, Envelope("session-updated", NoPayload)})
    \/ RefreshLive
    \/ RefreshPreview
    \/ \E j \in 1..MaxWaits : WaitTimerFire(j)

SpecRefresh == Init /\ [][NextRefresh]_vars

\* a session-updated notification with allocations of its own
SessionWithAllocs ==
    Envelope("session-updated",
             Payload("s1", "portion_of_sales", AllocSome(<<Alloc("c1", 3)>>), 0))

\* notifications reaching subscribers: what the handlers see when they run
NextNotify ==
    \/ Mount(TRUE)
    \/ FromWidget({ReadyS1, SessionS1, SessionWithAllocs, AllocGood})
    \/ \E e \in {"ready", "session-updated", "allocations-updated"} : On(e, UserH(1))
    \/ RefreshLive

SpecNotify == Init /\ [][NextNotify]_vars

\* construction, then the life of the widget it yields (none when the
\* constructor threw)
NextConstruct ==
    \/ constructed = "ok" /\ Lifecycle
    \/ constructed = "ok" /\ FromWidget({ReadyS1, ReadyS2})

SpecConstruct == InitConstruct /\ [][NextConstruct]_vars

\* ----------------------------------------------------------------- claims
\* the last step was the listener processing a validated message from the
\* owned frame
Processed == last.op = "receive" /\ last.heard /\ last.owned /\ isWidgetMessage(last.data)

ReadyWithPayload == {ReadyS1, ReadyS2}

\* C1: mount() with a resolvable container, followed by a `ready` message
\* from the owned frame before the ready timer has fired, resolves the mount
\* promise, and isReady() is true at that moment.
C1_ReadyResolvesMount ==
    [][\A i \in 1..MaxMounts :
          (/\ iframe = i /\ mountPromise[i] = "pending" /\ ReadyT(i) \in timers
           /\ last'.op = "receive" /\ last'.owned /\ last'.data \in ReadyWithPayload)
          => (mountPromise'[i] = "resolved" /\ isReady')]_vars

\* C2: a mount() that is waiting, with no `ready` processed and no destroy(),
\* still has its ready timer armed; when that timer fires the mount promise
\* is rejected with Timeout; a promise rejected with Timeout never resolves.
C2_TimeoutRejects ==
    /\ [](\A i \in 1..MaxMounts :
            (mountPromise[i] = "pending" /\ iframe = i /\ ~isReady)
            => (ReadyT(i) \in timers /\ readyTimeoutId = i))
    /\ [][\A i \in 1..MaxMounts :
            /\ (ReadyT(i) \in timers /\ last'.op = "readyTimer" /\ last'.id = i)
               => mountPromise'[i] = "Timeout"
            /\ mountPromise[i] = "Timeout" => mountPromise'[i] = "Timeout"]_vars

\* C2 witness: the ready timer of a waiting mount fired with no ready and no
\* destroy, and its promise is rejected with Timeout
C2_Witness ==
    /\ last.op = "readyTimer"
    /\ iframe = last.id
    /\ ~isReady
    /\ mountPromise[last.id] = "Timeout"

\* C3: remount -- after mount() on a widget that already has a frame, a
\* `ready` from the newly created frame resolves the new mount promise and
\* makes isReady() true.
C3_RemountReachesReady ==
    [][\A i \in 1..MaxMounts :
          (/\ iframe = i /\ (\E k \in Frames : k < i)
           /\ mountPromise[i] = "pending" /\ ReadyT(i) \in timers
           /\ last'.op = "receive" /\ last'.owned /\ last'.data \in ReadyWithPayload)
          => (mountPromise'[i] = "resolved" /\ isReady')]_vars

\* the commands in the queue are in the order they were issued
QueueInIssueOrder ==
    \A a, b \in 1..Len(pendingMessages) :
        a < b => pendingMessages[a].seq < pendingMessages[b].seq

\* C4: a refresh command issued while a frame is mounted and readiness is
\* false is appended to the queue and not posted; when `ready` is processed
\* the posts of that step are exactly the queued commands, each once, in the
\* order issued, all to the owned frame, and the queue is left empty.
C4_QueueFlushedFifo ==
    /\ []QueueInIssueOrder
    /\ [][/\ (last'.op = "refresh" /\ variant = "live" /\ iframe # NoFrame /\ ~isReady)
             => (/\ pendingMessages' = Append(pendingMessages, Cmd("refresh", last'.id))
                 /\ sent' = <<>>)
          /\ (Processed' /\ last'.data.type = "ready")
             => (/\ [n \in 1..Len(sent') |-> sent'[n].msg] = pendingMessages
                 /\ \A n \in 1..Len(sent') : sent'[n].to = iframe
                 /\ pendingMessages' = <<>>)]_vars

\* C4 witness: a `ready` step that flushed two queued commands in issue order
C4_Witness ==
    /\ Processed /\ last.data.type = "ready"
    /\ Len(sent) = 2
    /\ sent[1].msg = Cmd("refresh", 1)
    /\ sent[2].msg = Cmd("refresh", 2)
    /\ pendingMessages = <<>>

\* C5: every envelope posted while readiness was false is init or
\* preview-init; a destroy envelope is posted only by a destroy that found
\* the widget ready, and is never queued.
C5_NoPostBeforeReady ==
    /\ \A n \in 1..Len(sent) :
          /\ sent[n].msg.type \notin {"init", "preview-init"} => sent[n].ready
          /\ sent[n].msg.type = "destroy" => (last.op \in {"destroy", "mount"} /\ last.wasReady)
    /\ \A n \in 1..Len(pendingMessages) : pendingMessages[n].type # "destroy"

\* C5 witness: destroy() of a ready widget posted the destroy envelope
C5_Witness ==
    /\ last.op = "destroy" /\ last.wasReady
    /\ Len(sent) = 1
    /\ sent[1].msg.type = "destroy"

\* a live refresh() was the step taken
RefreshStep == last'.op = "refresh" /\ variant = "live"

\* C6 as stated: in every state with readiness false, before the first mount
\* and after destroy included, the refresh command is appended to the queue.
C6_QueuedWheneverNotReady ==
    [][(RefreshStep /\ ~isReady)
       => pendingMessages' = Append(pendingMessages, Cmd("refresh", last'.id))]_vars

\* C6 amended: with readiness false the refresh command is appended to the
\* queue, and not posted, when a frame is mounted; with no frame mounted it
\* is discarded (neither queued nor posted).
C6_QueuedWhileFrameMounted ==
    [][(RefreshStep /\ ~isReady)
       => /\ sent' = <<>>
          /\ pendingMessages' = IF iframe # NoFrame
                                THEN Append(pendingMessages, Cmd("refresh", last'.id))
                                ELSE pendingMessages]_vars

\* C6 witness: a refresh issued on a mounted, not yet ready widget is queued
C6_Witness ==
    /\ last.op = "refresh" /\ variant = "live"
    /\ iframe # NoFrame /\ ~isReady
    /\ Len(pendingMessages) > 0
    /\ pendingMessages[Len(pendingMessages)] = Cmd("refresh", last.id)

\* C7: a message whose source is not the owned frame's content window is
\* ignored whatever it carries: readiness, queue, cached session data and
\* allocations, registry and promises are unchanged, nothing is posted and
\* no handler is invoked.
C7_ForeignSourceIgnored ==
    [][(last'.op = "receive" /\ ~last'.owned)
       => (/\ UNCHANGED <<isWidgetReady, pendingMessages, sessionData, currentAllocations,
                          eventHandlers, mountPromise, previewSessionId>>
           /\ invoked' = <<>>
           /\ sent' = <<>>)]_vars

\* C7 witness: a well-formed session-updated from another window arrived
\* while a frame was mounted, the listener registered and a handler subscribed
C7_Witness ==
    /\ last.op = "receive" /\ ~last.owned /\ last.heard
    /\ iframe # NoFrame
    /\ last.data.type = "session-updated"
    /\ eventHandlers["session-updated"] # <<>>

\* C8: the target origin is the origin of the fixed base address in every
\* state, and every post of every step uses it.
C8_TargetOriginFixed ==
    /\ targetOrigin = UrlOrigin(WIDGET_URL)
    /\ \A n \in 1..Len(sent) : sent[n].origin = UrlOrigin(WIDGET_URL)

\* C8 witness: a message with another origin was processed and the commands
\* it released were posted
C8_Witness ==
    /\ Processed
    /\ last.origin = OtherOrigin
    /\ Len(sent) > 0

\* C9: a message from the owned frame that fails validation changes nothing:
\* readiness, queue, caches, registry and promises are unchanged, nothing is
\* posted and no handler is invoked.
C9_InvalidDropped ==
    [][(last'.op = "receive" /\ last'.owned /\ ~isWidgetMessage(last'.data))
       => (/\ UNCHANGED <<isWidgetReady, pendingMessages, sessionData, currentAllocations,
                          eventHandlers, mountPromise, previewSessionId>>
           /\ invoked' = <<>>
           /\ sent' = <<>>)]_vars

\* C9 witness: the listener heard a malformed message from the owned frame
\* while an "error" handler was subscribed
C9_Witness ==
    /\ last.op = "receive" /\ last.owned /\ last.heard
    /\ ~isWidgetMessage(last.data)
    /\ eventHandlers["error"] # <<>>

\* C10: after a session-updated notification carrying a payload is
\* processed, getSessionData() is that payload and getAllocations() is its
\* allocations field, or the empty sequence when the field is absent.
C10_SessionUpdatedReplacesCache ==
    (Processed /\ last.data.type = "session-updated" /\ last.data.payload.present)
    => /\ getSessionData = SdData(last.data.payload)
       /\ getAllocations = AlArr(IF last.data.payload.allocs.some
                                 THEN last.data.payload.allocs.v ELSE <<>>)

\* C10 witness: a session-updated without an allocations field was processed
C10_Witness ==
    /\ Processed /\ last.data.type = "session-updated" /\ last.data.payload.present
    /\ ~last.data.payload.allocs.some
    /\ getSessionData = SdData(last.data.payload)
    /\ getAllocations = AlArr(<<>>)

\* the `type` field of the cached Session Data, null when there is none
getType == IF sessionData.kind = "data" THEN sessionData.v.stype ELSE ""

\* C11: processing an allocations-updated notification (one that carries a
\* payload) makes getAllocations() the message's allocations field and leaves
\* the object returned by getSessionData(), hence getType(), as it was.
C11_AllocationsUpdatedOnlyAllocations ==
    [][(Processed' /\ last'.data.type = "allocations-updated" /\ last'.data.payload.present)
       => (/\ getAllocations' = IF last'.data.payload.allocs.some
                                THEN AlArr(last'.data.payload.allocs.v) ELSE AlUndefined
           /\ getSessionData' = getSessionData
           /\ getType' = getType)]_vars

\* C11 witness: an allocations-updated was processed while Session Data with
\* an allocations field of its own was cached; the two now differ
C11_Witness ==
    /\ Processed /\ last.data.type = "allocations-updated" /\ last.data.payload.present
    /\ getSessionData.kind = "data"
    /\ getSessionData.v.allocs.some
    /\ last.data.payload.allocs.some
    /\ getAllocations = AlArr(last.data.payload.allocs.v)
    /\ getAllocations # AlArr(getSessionData.v.allocs.v)

RECURSIVE SumAmounts(_)
\* the sum of the amount fields of a sequence of allocations
SumAmounts(s) == IF s = <<>> THEN 0 ELSE Head(s).amount + SumAmounts(Tail(s))

\* C12: every allocations-updated payload delivered to a handler has a
\* totalAmount equal to the sum of the amounts of its allocations.
C12_DeliveredTotalIsSum ==
    \A n \in 1..Len(invoked) :
        invoked[n].event = "allocations-updated"
        => invoked[n].data.total = SumAmounts(invoked[n].data.allocs.v)

\* the last step was the listener emitting a notification it processed
Emitted == Processed /\ ~PayloadReadThrows(last.data)

\* C13: when an event is emitted, every handler registered for it is
\* invoked, those registered after a handler that throws included: a pending
\* waitFor closure behind a throwing handler still resolves its promise.
C13_ThrowingHandlerIsolated ==
    [][Emitted'
       => /\ \A h \in Range(eventHandlers[last'.data.type]) :
                \E n \in 1..Len(invoked') :
                    invoked'[n].h = h /\ invoked'[n].event = last'.data.type
          /\ \A j \in 1..MaxWaits :
                (/\ WaitH(j) \in Range(eventHandlers[last'.data.type])
                 /\ waitPromise[j].state = "pending")
                => waitPromise'[j].state = "resolved"]_vars

\* C13 witness: an emission in which the throwing handler ran before a
\* waitFor closure, and the closure resolved its promise
C13_Witness ==
    /\ Emitted
    /\ \E n, m \in 1..Len(invoked) :
          /\ n < m
          /\ Throws(invoked[n].h)
          /\ invoked[m].h.k = "wf"
          /\ waitPromise[invoked[m].h.id].state = "resolved"

\* C14: off(event) without a handler leaves no handler registered for that
\* event and leaves the handlers of every other event as they were; a step
\* invokes only handlers that are registered for the emitted event when it
\* starts, so none of the removed ones runs again unless registered again.
C14_OffRemovesEveryHandler ==
    [][/\ last'.op = "offAll"
          => /\ eventHandlers'[last'.event] = <<>>
             /\ \A e \in EventNames \ {last'.event} : eventHandlers'[e] = eventHandlers[e]
       /\ \A n \in 1..Len(invoked') :
             invoked'[n].h \in Range(eventHandlers[invoked'[n].event])]_vars

\* C14 witness: the event was emitted after off(event) and before any new
\* registration -- no handler ran, a waitFor of that event is still pending,
\* and a handler of another event is still registered
C14_Witness ==
    /\ Emitted
    /\ invoked = <<>>
    /\ \E j \in 1..MaxWaits :
          waitPromise[j].event = last.data.type /\ waitPromise[j].state = "pending"
    /\ eventHandlers["session-updated"] # <<>>

\* C15 as stated: a waitFor that is pending with its timer still armed is
\* resolved by the next emission of its event, with that emission's payload,
\* and its closure is then out of the registry; once resolved it stays so.
C15_WaitForResolvesOnFirstEmission ==
    [][\A j \in 1..MaxWaits :
          /\ (/\ waitPromise[j].state = "pending" /\ WaitT(j) \in timers
              /\ Emitted' /\ last'.data.type = waitPromise[j].event)
             => /\ waitPromise'[j].state = "resolved"
                /\ waitPromise'[j].value = last'.data.payload
                /\ WaitH(j) \notin Range(eventHandlers'[waitPromise[j].event])
          /\ waitPromise[j].state = "resolved" => waitPromise'[j] = waitPromise[j]]_vars

\* C15 amended: a pending waitFor whose closure is still registered is
\* resolved by the next emission of its event, with that emission's payload,
\* and the closure is then out of the registry; once resolved it is never
\* changed again.  A pending waitFor whose closure off(event) has removed is
\* left pending by an emission of its event (its timer then rejects it).
C15_WaitForResolvesWhileRegistered ==
    [][\A j \in 1..MaxWaits :
          /\ (/\ waitPromise[j].state = "pending"
              /\ Emitted' /\ last'.data.type = waitPromise[j].event)
             => IF WaitH(j) \in Range(eventHandlers[waitPromise[j].event])
                THEN /\ waitPromise'[j].state = "resolved"
                     /\ waitPromise'[j].value = last'.data.payload
                     /\ WaitH(j) \notin Range(eventHandlers'[waitPromise[j].event])
                     /\ WaitT(j) \notin timers'
                ELSE /\ waitPromise'[j] = waitPromise[j]
                     /\ WaitT(j) \in timers'
          /\ waitPromise[j].state = "resolved" => waitPromise'[j] = waitPromise[j]]_vars

\* C15 witness: a second emission of the event after the one that resolved a
\* waitFor -- the promise keeps the first payload
C15_Witness ==
    /\ Emitted
    /\ \E j \in 1..MaxWaits :
          /\ waitPromise[j].event = last.data.type
          /\ waitPromise[j].state = "resolved"
          /\ waitPromise[j].value # last.data.payload
          /\ WaitH(j) \notin Range(eventHandlers[last.data.type])

\* waitFor call j has returned a promise that is settled
Settled(j) == waitPromise[j].state \in {"resolved", "Timeout"}

\* C16: a pending waitFor keeps its timer armed; when the timer fires the
\* promise is rejected with Timeout; a settled promise (resolved or timed
\* out) has its closure out of the registry and its timer gone, and is never
\* settled a second time.
C16_WaitForTimeoutAndCleanup ==
    /\ [](\A j \in 1..MaxWaits :
            /\ waitPromise[j].state = "pending" => WaitT(j) \in timers
            /\ Settled(j) => /\ WaitH(j) \notin Range(eventHandlers[waitPromise[j].event])
                             /\ WaitT(j) \notin timers)
    /\ [][\A j \in 1..MaxWaits :
            /\ (waitPromise[j].state = "pending" /\ last'.op = "waitTimer" /\ last'.id = j)
               => waitPromise'[j].state = "Timeout"
            /\ Settled(j) => waitPromise'[j] = waitPromise[j]]_vars

\* C16 witness: the timer of a pending waitFor fired; the promise is rejected
\* with Timeout and only the caller's own handler is left for the event
C16_Witness ==
    /\ last.op = "waitTimer"
    /\ waitPromise[last.id].state = "Timeout"
    /\ eventHandlers[waitPromise[last.id].event] = <<UserH(1)>>

\* the refresh commands the step handed to the frame or to the queue
RefreshCommandsIssued ==
    Len(SelectSeq(sent', LAMBDA m : m.msg.type = "refresh"))
    + Len(SelectSeq(pendingMessages', LAMBDA m : m.type = "refresh"))
    - Len(SelectSeq(pendingMessages, LAMBDA m : m.type = "refresh"))

\* the promise of refresh call j is resolved only by a step that processes a
\* session-updated notification; while it is pending its timer is armed, and
\* the timer's firing rejects it with Timeout
RefreshPromiseFollowsSessionUpdated ==
    /\ [](\A j \in 1..MaxWaits : waitPromise[j].state = "pending" => WaitT(j) \in timers)
    /\ [][/\ RefreshStep => (last'.promise = "pending" /\ waitPromise'[last'.id].state = "pending")
          /\ \A j \in 1..MaxWaits :
                /\ (waitPromise[j].state # "resolved" /\ waitPromise'[j].state = "resolved")
                   => (/\ waitPromise[j].state = "pending"
                       /\ Processed' /\ last'.data.type = "session-updated")
                /\ (waitPromise[j].state = "pending" /\ last'.op = "waitTimer" /\ last'.id = j)
                   => waitPromise'[j].state = "Timeout"]_vars

\* C17 as stated: on the live variant every refresh() issues exactly one
\* refresh command (posted or queued); its promise resolves only after a
\* session-updated processed after the call, and is rejected with Timeout
\* when its timer fires first.
C17_RefreshIssuesOneCommand ==
    /\ [][RefreshStep => RefreshCommandsIssued = 1]_vars
    /\ RefreshPromiseFollowsSessionUpdated

\* C17 amended: on the live variant refresh() issues exactly one refresh
\* command while a frame is mounted (posted when ready, queued when not) and
\* none while no frame is mounted; its promise resolves only after a
\* session-updated processed after the call, and is rejected with Timeout
\* when its timer fires first.
C17_RefreshIssuesOneCommandIfMounted ==
    /\ [][RefreshStep
          => /\ RefreshCommandsIssued = IF iframe # NoFrame THEN 1 ELSE 0
             /\ (iframe # NoFrame /\ isReady)
                => sent' = <<Post(Cmd("refresh", last'.id), iframe, targetOrigin, TRUE)>>]_vars
    /\ RefreshPromiseFollowsSessionUpdated

\* C17 witness: a session-updated was processed on the ready live widget and
\* resolved the promise of a refresh() with its payload
C17_Witness ==
    /\ variant = "live"
    /\ Emitted /\ last.data.type = "session-updated"
    /\ isReady
    /\ \E j \in 1..MaxWaits :
          /\ waitPromise[j].state = "resolved"
          /\ waitPromise[j].value = last.data.payload
          /\ Len(invoked) = 1
          /\ invoked[1].h = WaitH(j)
          /\ invoked[1].event = "session-updated"
          /\ invoked[1].data = last.data.payload

\* C18: on the preview variant refresh() returns a resolved promise, posts
\* and queues nothing, registers no handler and arms no timer, in any state.
C18_PreviewRefreshNoOp ==
    [][(last'.op = "refresh" /\ variant = "preview")
       => /\ last'.promise = "resolved"
          /\ sent' = <<>>
          /\ UNCHANGED <<pendingMessages, eventHandlers, timers, waitPromise, nWaits>>]_vars

\* C18 witness: refresh() on a mounted and ready preview widget
C18_Witness ==
    /\ last.op = "refresh" /\ variant = "preview"
    /\ iframe # NoFrame /\ isReady
    /\ last.promise = "resolved"
    /\ sent = <<>>

\* the step ran destroy(): the explicit call, or the one inside a mount()
\* that found a frame mounted
DestroyStep == last'.op = "destroy" \/ (last'.op = "mount" /\ last'.hadFrame)

\* C19: a destroy() (explicit, or implicit in a remount) while mount call i
\* is waiting for ready cancels that call's ready timer; a waiting mount
\* whose frame has been destroyed has no timer armed, and a mount promise is
\* only ever rejected with Timeout while its own frame is still the mounted
\* one, never after the destroy.
C19_DestroyCancelsReadyTimer ==
    /\ [](\A i \in 1..MaxMounts :
            (mountPromise[i] = "pending" /\ iframe # i) => ReadyT(i) \notin timers)
    /\ [][\A i \in 1..MaxMounts :
            /\ (mountPromise[i] = "pending" /\ DestroyStep) => ReadyT(i) \notin timers'
            /\ (mountPromise[i] # "Timeout" /\ mountPromise'[i] = "Timeout")
               => (iframe = i /\ ~DestroyStep)]_vars

\* C19 witness: destroy() was called while a mount was waiting for ready; its
\* promise is still pending and its timer is gone
C19_Witness ==
    /\ last.op = "destroy" /\ last.hadFrame /\ ~last.wasReady
    /\ nMounts > 0
    /\ mountPromise[nMounts] = "pending"
    /\ ReadyT(nMounts) \notin timers
    /\ readyTimeoutId = NoTimer

\* C20: the readiness flag is false after construction; it turns true only
\* in a step that processes a validated ready message from the owned frame;
\* it turns false only in a step that runs destroy(); after a destroy() it is
\* false and the queue is empty, and so it is whenever no frame is mounted.
C20_ReadinessFlagTransitions ==
    /\ [](/\ last.op = "new" => ~isReady
          /\ iframe = NoFrame => (~isReady /\ pendingMessages = <<>>))
    /\ [][/\ (~isReady /\ isReady') => (Processed' /\ last'.data.type = "ready")
          /\ (isReady /\ ~isReady') => DestroyStep
          /\ DestroyStep => ~isReady'
          /\ last'.op = "destroy" => pendingMessages' = <<>>
          /\ (last'.op = "mount" /\ last'.hadFrame) => pendingMessages' = <<>>]_vars

\* C20 witness: a mount() on a ready widget -- its implicit destroy reset
\* the flag
C20_Witness ==
    /\ last.op = "mount" /\ last.hadFrame /\ last.wasReady
    /\ ~isReady
    /\ pendingMessages = <<>>

\* C21: destroy() leaves the handler registry as it was; the destroy inside
\* a remount removes nothing either (the remount then appends its own
\* readyHandler), so every (event, handler) pair registered before is still
\* registered after, in the same order.
C21_DestroyKeepsRegistry ==
    [][/\ last'.op = "destroy" => eventHandlers' = eventHandlers
       /\ last'.op = "mount"
          => \A e \in EventNames :
                /\ Len(eventHandlers'[e]) >= Len(eventHandlers[e])
                /\ SubSeq(eventHandlers'[e], 1, Len(eventHandlers[e])) = eventHandlers[e]]_vars

\* C21 witness: destroy() of a mounted widget with a caller's handler and
\* the readyHandler of the interrupted mount in the registry
C21_Witness ==
    /\ last.op = "destroy" /\ last.hadFrame
    /\ eventHandlers["session-updated"] = <<UserH(1)>>
    /\ \E i \in 1..MaxMounts : ReadyH(i) \in Range(eventHandlers["ready"])

\* the step processed a ready notification that carries a session id
ReadyWithSessionId ==
    /\ Processed' /\ last'.data.type = "ready"
    /\ last'.data.payload.present /\ last'.data.payload.sessionId # ""

\* C22: on the preview variant getSessionId() is empty after construction,
\* becomes the session id of every ready payload that is processed, changes
\* in no other step, and is not empty when a mount promise resolves --
\* whatever on / off calls were made.
C22_PreviewSessionIdFromReady ==
    /\ [](last.op = "new" /\ variant = "preview" => getSessionId = "")
    /\ [][variant = "preview"
          => /\ IF ReadyWithSessionId
                THEN getSessionId' = last'.data.payload.sessionId
                ELSE getSessionId' = getSessionId
             /\ \A i \in 1..MaxMounts :
                   (mountPromise[i] # "resolved" /\ mountPromise'[i] = "resolved")
                   => getSessionId' # ""]_vars

\* C23: every frame is posted the initialization envelope at most once, and
\* only after its own load event.
C23_InitOncePerFrameAfterLoad ==
    \A f \in 1..MaxMounts :
        /\ initPosts[f] <= 1
        /\ initPosts[f] > 0 => f \in loaded

\* a config field that is missing, empty or made of whitespace only
IsBlank(v) == v = Undefined \/ (v.t = "string" /\ \A n \in 1..Len(v.s) : v.s[n] \in Whitespace)

\* a config field that is a string with a character that is not whitespace
IsNonBlankString(v) == v.t = "string" /\ \E n \in 1..Len(v.s) : v.s[n] \notin Whitespace

\* C24: the live constructor throws InvalidConfig, and yields no widget,
\* when sessionId or secret is missing, empty or whitespace-only; it succeeds
\* when both are non-blank strings, and getSessionId() is then the
\* constructor's sessionId in every state, whatever ready payloads arrive.
C24_ConstructorValidation ==
    /\ (IsBlank(config.sessionId) \/ IsBlank(config.secret))
       => (constructed = "InvalidConfig" /\ last.op = "new" /\ sessionId = Undefined)
    /\ (IsNonBlankString(config.sessionId) /\ IsNonBlankString(config.secret))
       => (constructed = "ok" /\ getSessionId = config.sessionId)

\* C24 witness: a widget constructed with a padded sessionId has processed a
\* ready payload that carries another id and still answers with its own
C24_Witness ==
    /\ constructed = "ok"
    /\ config.sessionId = Str(<<" ", "s", "1", " ">>)
    /\ Processed /\ last.data = ReadyS2
    /\ getSessionId = config.sessionId

\* C25: a message whose origin is not the target origin is not processed,
\* also when its source is the owned frame's content window: readiness,
\* queue, caches, registry and promises are unchanged, nothing is posted and
\* no handler is invoked.
C25_OriginValidated ==
    [][(last'.op = "receive" /\ last'.origin # targetOrigin)
       => (/\ UNCHANGED <<isWidgetReady, pendingMessages, sessionData, currentAllocations,
                          eventHandlers, mountPromise, previewSessionId>>
           /\ invoked' = <<>>
           /\ sent' = <<>>)]_vars

\* no handler occurs twice in s
NoDuplicates(s) == \A a, b \in 1..Len(s) : a # b => s[a] # s[b]

\* C26: no handler is registered twice for an event; an emission invokes
\* exactly the handlers registered for the event, each once, in the order of
\* the registry; on() appends a handler that is not registered, changes
\* nothing when it already is, and returns the widget.
C26_EmitOnceInRegistrationOrder ==
    /\ [](\A e \in EventNames : NoDuplicates(eventHandlers[e]))
    /\ [][/\ Emitted'
             => /\ [n \in 1..Len(invoked') |-> invoked'[n].h] = eventHandlers[last'.data.type]
                /\ \A n \in 1..Len(invoked') :
                      /\ invoked'[n].event = last'.data.type
                      /\ invoked'[n].data = last'.data.payload
          /\ last'.op = "on"
             => /\ last'.returns = "this"
                /\ eventHandlers' =
                      IF last'.h \in Range(eventHandlers[last'.event])
                      THEN eventHandlers
                      ELSE [eventHandlers EXCEPT ![last'.event] = Append(@, last'.h)]]_vars

\* C26 witness: on() was called with the handler that is first of the two
\* registered for the event -- a second registration, which added nothing
C26_Witness ==
    /\ last.op = "on"
    /\ eventHandlers[last.event] = <<UserH(2), UserH(1)>>
    /\ last.h = UserH(2)

\* C27: every handler runs after the listener's updates for the message:
\* a ready handler sees the readiness flag true, the queue empty and all the
\* released commands posted; a session-updated handler sees getSessionData()
\* and getAllocations() of the new payload; an allocations-updated handler
\* sees getAllocations() of the new payload.
C27_CacheUpdatedBeforeHandlers ==
    \A n \in 1..Len(invoked) :
        /\ invoked[n].event = "ready"
           => /\ invoked[n].seen.isReady
              /\ invoked[n].seen.pendingMessages = <<>>
              /\ invoked[n].seen.sent = sent
        /\ invoked[n].event = "session-updated"
           => /\ invoked[n].seen.getSessionData = SdData(invoked[n].data)
              /\ invoked[n].seen.getAllocations =
                    AlArr(IF invoked[n].data.allocs.some THEN invoked[n].data.allocs.v
                          ELSE <<>>)
        /\ invoked[n].event = "allocations-updated"
           => invoked[n].seen.getAllocations =
                 (IF invoked[n].data.allocs.some THEN AlArr(invoked[n].data.allocs.v)
                  ELSE AlUndefined)

\* C27 witness: a caller's ready handler ran in the step that released two
\* queued commands, and saw them posted
C27_Witness ==
    /\ Emitted /\ last.data.type = "ready"
    /\ Len(sent) = 2
    /\ \E n \in 1..Len(invoked) :
          /\ invoked[n].h = UserH(1)
          /\ invoked[n].seen.isReady
          /\ invoked[n].seen.sent = sent

\* C28: whenever a frame is mounted, exactly one message listener of the
\* instance is registered on window.
C28_OneListenerWhileMounted ==
    iframe # NoFrame => windowListeners = 1

\* C29: at most one frame of the instance is attached to the document, and
\* it is the owned one; a mount() that finds a frame mounted detaches it
\* before it creates the next.
C29_AtMostOneFrameAttached ==
    /\ [](Cardinality(attached) <= 1 /\ attached \subseteq {iframe})
    /\ [][(last'.op = "mount" /\ last'.hadFrame)
          => (iframe \notin attached' /\ iframe' # iframe)]_vars

\* C29 witness: a second mount() while the first was still waiting for
\* ready -- the first frame is detached, the new one is the only one attached
C29_Witness ==
    /\ last.op = "mount" /\ last.hadFrame /\ ~last.wasReady /\ last.found
    /\ last.id > 1
    /\ mountPromise[last.id - 1] = "pending"
    /\ attached = {iframe}
    /\ iframe = last.id

\* C30: every promise returned by mount() that is pending is eventually
\* settled, given that armed timers fire.
C30_MountPromiseSettles ==
    \A i \in 1..MaxMounts : (mountPromise[i] = "pending") ~> (mountPromise[i] # "pending")

\* getAllocations() is an array (possibly empty), as its declared return
\* type Allocation[] says
AllocationsIsSequence == getAllocations.def

\* getSessionData() is null or a Session Data object, as its declared return
\* type SessionData | null says
SessionDataIsNullOrObject == getSessionData.kind \in {"null", "data"}

\* C31: in every reachable state getAllocations() returns a sequence
\* (possibly empty) and getSessionData() returns null or a Session Data
\* object, whatever validated session-updated / allocations-updated
\* messages were received, also ones with no payload or no allocations
\* field.
C31_CachesWellTyped ==
    AllocationsIsSequence /\ SessionDataIsNullOrObject

====
